---- MODULE Spec2Model ----
(***************************************************************************)
(* Batch_Simulation (PySeismoSoil/class_batch_simulation.py): a batch of   *)
(* site response simulations run one after the other in the calling        *)
(* process, or mapped over a multiprocessing pool.                         *)
(*                                                                         *)
(* Strings are sequences of one-character strings, so that str(), rjust()  *)
(* and os.path.join() are computed character by character.  Python values  *)
(* that may be None are records with a "tag" field.                        *)
(***************************************************************************)
EXTENDS Integers, Sequences, FiniteSets, TLC

\* ------------------------------------------------------------------ bounds
\* Largest batch in which any number of simulations may fail.
MaxSims == 3
\* Largest batch in which at most one simulation fails.
MaxBatch == 11
\* Longest sequence handed to the constructor.
MaxArgLen == 3
\* Latest reading of the clock.
MaxClock == 2

VARIABLES
    list_of_simulations,  \* self.list_of_simulations
    n_simulations,        \* self.n_simulations
    sim_type,             \* self.sim_type
    options,              \* the mapping object the caller hands to run()
    clock,                \* the wall clock read by hlp.get_current_time
    pc,                   \* where the run() call stands
    parallel,             \* run(parallel=...)
    n_cores,              \* run(n_cores=...)
    other_params,         \* [n_digits, base_output_dir, catch_errors] of run()
    i,                    \* loop variable of the sequential for loop
    sim_results,          \* local sim_results of run()
    calls,                \* every sim_obj.run(**options) made so far, in order
    taskq,                \* chunks of the pool's map not yet taken by a worker
    busy,                 \* the chunks the pool's workers are executing
    mapres,               \* the pool's MapResult of the p.map call
    pool_alive,           \* the pool of the with block exists
    plotted,              \* every sim_result.plot(save_fig=...) made so far
    error,                \* the exception run() raised ("none": none)
    ret,                  \* what run() returned to the caller
    args,                 \* base_output_dir and options as the caller passed
                          \* them, and the clock's reading at the call
    prev,                 \* outcome of the caller's previous run() call
    ctor                  \* the constructor's argument and the exception it raised

vars == <<list_of_simulations, n_simulations, sim_type, options, clock, pc,
          parallel, n_cores, other_params, i, sim_results, calls, taskq, busy,
          mapres, pool_alive, plotted, error, ret, args, prev, ctor>>

\* ----------------------------------------------------------- Python values
None == [tag |-> "None"]
\* What ret holds while run() has returned nothing: no list that run() returns
\* (it is a list, as every value of ret is, and its element is no result and
\* not None).
NoReturn == <<[tag |-> "NoReturn"]>>
NoPrev == [tag |-> "NoPrev"]
\* An attribute of a Batch_Simulation that __init__ has not set.
Unset == [tag |-> "Unset"]

Kinds == {"Linear_Simulation", "Equiv_Linear_Simulation", "Nonlinear_Simulation"}

\* What a simulation object's own run() does: return a result, raise
\* ValueError, or raise an exception of another class.
Behaviours == {"ok", "ValueError", "OtherError"}

\* dict: a function from its keys.
EmptyDict == [k \in {} |-> TRUE]

\* d.update({k: v})
DictUpdate(d, k, v) == [x \in (DOMAIN d) \cup {k} |-> IF x = k THEN v ELSE d[x]]

\* d.get(k, default)
DictGet(d, k, default) == IF k \in DOMAIN d THEN d[k] ELSE default

\* -------------------------------------------------------------- strings
Digits == <<"0", "1", "2", "3", "4", "5", "6", "7", "8", "9">>

\* str(n) of an int n >= 0
RECURSIVE Str(_)
Str(n) == IF n < 10 THEN <<Digits[n + 1]>> ELSE Str(n \div 10) \o <<Digits[(n % 10) + 1]>>

\* s.rjust(width, fill)
RjustLeft(s, width, fill) ==
    IF Len(s) >= width THEN s ELSE s \o [k \in 1..(width - Len(s)) |-> fill]
Rjust(s, width, fill) ==
    IF Len(s) >= width THEN s ELSE [k \in 1..(width - Len(s)) |-> fill] \o s

\* os.path.join(a, b) on a POSIX system
PathJoin(a, b) ==
    IF b # <<>> /\ b[1] = "/" THEN b
    ELSE IF a = <<>> \/ a[Len(a)] = "/" THEN a \o b
    ELSE a \o <<"/">> \o b

\* hlp.get_current_time(for_filename=True): a stamp of the clock's reading
GetCurrentTime(t) == Str(t)

BatchSimPrefix == <<"b", "a", "t", "c", "h", "_", "s", "i", "m", "_">>

\* The base_output_dir arguments tried: None and 'out/'.
BaseDirArgs ==
    { None,
      [tag |-> "str", s |-> <<"o", "u", "t", "/">>] }

\* The n_cores arguments tried.
CoreArgs == {1, 2}

\* The options arguments tried.
OptionArgs ==
    { EmptyDict,
      [k \in {"show_fig", "save_fig"} |-> TRUE] }

\* ------------------------------------------------- the single-task executor
\* n_digits = len(str(N))
NDigits(N) == Len(Str(N))

\* base_output_dir of run(): the argument, or './batch_sim_<current time>'
ResolveBaseDir(arg, t) ==
    IF arg = None
    THEN PathJoin(<<".", "/">>, BatchSimPrefix \o GetCurrentTime(t))
    ELSE arg.s

\* The key under which a simulation of the batch's type takes its location.
LocationKeySwapped(type) ==
    IF type = "Nonlinear_Simulation" THEN "output_dir" ELSE "sim_dir"
LocationKey(type) ==
    IF type = "Nonlinear_Simulation" THEN "sim_dir" ELSE "output_dir"

\* output_dir = os.path.join(base_output_dir, str(i).rjust(n_digits, '0'))
OutputDirNoPad(idx, op) ==
    PathJoin(op.base_output_dir, Str(idx))
OutputDirAtTaskTime(idx, op) ==
    PathJoin(ResolveBaseDir(args.base_output_dir, clock),
             Rjust(Str(idx), op.n_digits, "0"))
OutputDirShared(idx, op) ==
    PathJoin(op.base_output_dir, Rjust(Str(op.n_digits), op.n_digits, "0"))
OutputDir(idx, op) ==
    PathJoin(op.base_output_dir, Rjust(Str(idx), op.n_digits, "0"))

\* sim_obj.run(**bundle) of a simulation object: a result, or an exception.
SimRun(sim, bundle) ==
    IF sim.behaviour = "ok"
    THEN [raised |-> "none", value |-> [tag |-> "Result", sim |-> sim, opts |-> bundle]]
    ELSE [raised |-> sim.behaviour, value |-> None]

\* _run_single_sim([idx, [n_digits, base_output_dir, catch_errors, opts]]):
\* opts is updated in place and handed to the simulation.  The record holds
\* the mapping as the call leaves it, the call made, the exception that
\* leaves the method ("none": none) and the value returned.
RunSingleSimNoCatch(idx, op, opts) ==
    LET output_dir == OutputDir(idx, op)
        opts2 == DictUpdate(opts, LocationKey(sim_type), output_dir)
        sim_obj == list_of_simulations[idx + 1]
        r == SimRun(sim_obj, opts2)
    IN  [options |-> opts2,
         call |-> [ord |-> idx, bundle |-> opts2, raised |-> r.raised, value |-> r.value],
         raised |-> r.raised,
         value |-> r.value]
RunSingleSimCatchAll(idx, op, opts) ==
    LET output_dir == OutputDir(idx, op)
        opts2 == DictUpdate(opts, LocationKey(sim_type), output_dir)
        sim_obj == list_of_simulations[idx + 1]
        r == SimRun(sim_obj, opts2)
    IN  [options |-> opts2,
         call |-> [ord |-> idx, bundle |-> opts2, raised |-> r.raised, value |-> r.value],
         raised |-> IF op.catch_errors THEN "none" ELSE r.raised,
         value |-> r.value]
RunSingleSimAlwaysCatch(idx, op, opts) ==
    LET output_dir == OutputDir(idx, op)
        opts2 == DictUpdate(opts, LocationKey(sim_type), output_dir)
        sim_obj == list_of_simulations[idx + 1]
        r == SimRun(sim_obj, opts2)
    IN  [options |-> opts2,
         call |-> [ord |-> idx, bundle |-> opts2, raised |-> r.raised, value |-> r.value],
         raised |-> IF r.raised = "ValueError" THEN "none" ELSE r.raised,
         value |-> r.value]
RunSingleSim(idx, op, opts) ==
    LET output_dir == OutputDir(idx, op)
        opts2 == DictUpdate(opts, LocationKey(sim_type), output_dir)
        sim_obj == list_of_simulations[idx + 1]
        r == SimRun(sim_obj, opts2)
    IN  [options |-> opts2,
         call |-> [ord |-> idx, bundle |-> opts2, raised |-> r.raised, value |-> r.value],
         raised |-> IF op.catch_errors /\ r.raised = "ValueError" THEN "none" ELSE r.raised,
         value |-> r.value]

\* ------------------------------------------------------- the pool's map
\* Pool.map's chunksize: divmod(len(iterable), processes * 4), rounded up.
ChunkSize(N, processes) ==
    (N \div (processes * 4)) + (IF N % (processes * 4) # 0 THEN 1 ELSE 0)

\* MapResult: number of chunks of a map over N items.
NumChunks(N, chunksize) ==
    (N \div chunksize) + (IF N % chunksize # 0 THEN 1 ELSE 0)

Min(a, b) == IF a < b THEN a ELSE b

\* mapstar in a worker: list(map(_run_single_sim, chunk)) over the ordinals
\* lo..hi of one chunk, on the chunk's own unpickled copy of the mapping.
RECURSIVE MapStar(_, _, _, _, _)
MapStar(lo, hi, opts, vals, log) ==
    IF lo > hi
    THEN [success |-> TRUE, value |-> vals, exc |-> "none", calls |-> log]
    ELSE LET r == RunSingleSim(lo, other_params, opts)
         IN  IF r.raised # "none"
             THEN [success |-> FALSE, value |-> <<>>, exc |-> r.raised,
                   calls |-> Append(log, r.call)]
             ELSE MapStar(lo + 1, hi, r.options, Append(vals, r.value),
                          Append(log, r.call))

\* MapResult._set(k, (success, result)) for chunk k
MapResultSetByArrival(m, k, out) ==
    LET left == m.number_left - 1
        done == m.chunksize * (NumChunks(Len(m.value), m.chunksize) - m.number_left)
    IN  IF out.success /\ m.success
        THEN [m EXCEPT !.number_left = left,
                       !.value = [x \in 1..Len(m.value) |->
                                    IF x > done /\ x <= done + Len(out.value)
                                    THEN out.value[x - done]
                                    ELSE m.value[x]]]
        ELSE IF ~out.success /\ m.success
             THEN [m EXCEPT !.number_left = left, !.success = FALSE,
                            !.exc = out.exc, !.value = <<>>]
             ELSE [m EXCEPT !.number_left = left]
MapResultSetLostFailure(m, k, out) ==
    LET left == m.number_left - 1
    IN  IF out.success /\ m.success
        THEN [m EXCEPT !.number_left = left,
                       !.value = [x \in 1..Len(m.value) |->
                                    IF x > k * m.chunksize /\ x <= k * m.chunksize + Len(out.value)
                                    THEN out.value[x - k * m.chunksize]
                                    ELSE m.value[x]]]
        ELSE IF ~out.success /\ m.success
             THEN [m EXCEPT !.success = FALSE, !.exc = out.exc, !.value = <<>>]
             ELSE [m EXCEPT !.number_left = left]
MapResultSet(m, k, out) ==
    LET left == m.number_left - 1
    IN  IF out.success /\ m.success
        THEN [m EXCEPT !.number_left = left,
                       !.value = [x \in 1..Len(m.value) |->
                                    IF x > k * m.chunksize /\ x <= k * m.chunksize + Len(out.value)
                                    THEN out.value[x - k * m.chunksize]
                                    ELSE m.value[x]]]
        ELSE IF ~out.success /\ m.success
             THEN [m EXCEPT !.number_left = left, !.success = FALSE,
                            !.exc = out.exc, !.value = <<>>]
             ELSE [m EXCEPT !.number_left = left]

NoMapResult == [tag |-> "NoMapResult"]

\* ----------------------------------------------------------- construction
\* A constructor argument: a list, or an object of another type (a tuple of
\* the same items, or None).
ListArg(items) == [type |-> "list", items |-> items]

\* type(x) of an item, and isinstance(x, cls): the three simulation classes
\* are unrelated classes, and no item is of a subclass of one of them.
TypeOf(x) == x.kind

IsInstance(x, cls) == TypeOf(x) = cls

\* Batch_Simulation.__init__(list_of_simulations): the exception raised
\* ("none": none) and the attributes set.
InitBatchFirstOnly(x) ==
    IF x.type # "list" THEN [raised |-> "TypeError"]
    ELSE IF Len(x.items) = 0 THEN [raised |-> "ValueError"]
    ELSE IF ~\E cls \in Kinds : IsInstance(x.items[1], cls)
         THEN [raised |-> "TypeError"]
         ELSE [raised |-> "none",
               list_of_simulations |-> x.items,
               n_simulations |-> Len(x.items),
               sim_type |-> TypeOf(x.items[1])]
InitBatchNeedsTwo(x) ==
    IF x.type # "list" THEN [raised |-> "TypeError"]
    ELSE IF Len(x.items) <= 1 THEN [raised |-> "ValueError"]
    ELSE IF ~\E cls \in Kinds : IsInstance(x.items[1], cls)
         THEN [raised |-> "TypeError"]
    ELSE IF ~\A k \in 1..Len(x.items) : IsInstance(x.items[k], TypeOf(x.items[1]))
         THEN [raised |-> "TypeError"]
         ELSE [raised |-> "none",
               list_of_simulations |-> x.items,
               n_simulations |-> Len(x.items),
               sim_type |-> TypeOf(x.items[1])]
InitBatch(x) ==
    IF x.type # "list" THEN [raised |-> "TypeError"]
    ELSE IF Len(x.items) = 0 THEN [raised |-> "ValueError"]
    ELSE IF ~\E cls \in Kinds : IsInstance(x.items[1], cls)
         THEN [raised |-> "TypeError"]
    ELSE IF ~\A k \in 1..Len(x.items) : IsInstance(x.items[k], TypeOf(x.items[1]))
         THEN [raised |-> "TypeError"]
         ELSE [raised |-> "none",
               list_of_simulations |-> x.items,
               n_simulations |-> Len(x.items),
               sim_type |-> TypeOf(x.items[1])]

\* Batch_Simulation(sims) has been constructed from the list sims.
Constructed(sims) ==
    LET r == InitBatch(ListArg(sims))
    IN  /\ r.raised = "none"
        /\ list_of_simulations = r.list_of_simulations
        /\ n_simulations = r.n_simulations
        /\ sim_type = r.sim_type
        /\ ctor = [arg |-> ListArg(sims), raised |-> "none"]

\* The state in which no run() call has been made yet.
NoRunYet ==
    /\ options = EmptyDict
    /\ clock = 0
    /\ parallel = FALSE
    /\ n_cores = 1
    /\ other_params = [n_digits |-> 0, base_output_dir |-> <<>>, catch_errors |-> FALSE]
    /\ i = 0
    /\ sim_results = <<>>
    /\ calls = <<>>
    /\ taskq = <<>>
    /\ busy = {}
    /\ mapres = NoMapResult
    /\ pool_alive = FALSE
    /\ plotted = <<>>
    /\ error = "none"
    /\ ret = NoReturn
    /\ args = [base_output_dir |-> None, options |-> EmptyDict, time |-> 0]
    /\ prev = NoPrev

\* A constructed batch on which run() has not been called.
NoCallYet ==
    /\ NoRunYet
    /\ pc = "idle"

\* Batches of 1..MaxSims simulations of one type, each of which may fail.
SmallBatches ==
    { [k \in 1..N |-> [kind |-> kind, behaviour |-> b[k]]] :
        <<N, kind, b>> \in
          UNION { {N} \X Kinds \X [1..N -> Behaviours] : N \in 1..MaxSims } }

\* Batches of MaxBatch - 1 or MaxBatch linear simulations, at most one of which
\* fails.
BigBatches ==
    { [k \in 1..N |-> [kind |-> "Linear_Simulation",
                       behaviour |-> IF k = bad THEN b ELSE "ok"]] :
        <<N, bad, b>> \in
          UNION { {N} \X (1..N) \X Behaviours : N \in (MaxBatch - 1)..MaxBatch } }

Init ==
    /\ \E sims \in SmallBatches \cup BigBatches : Constructed(sims)
    /\ NoCallYet

\* A batch whose every simulation may fail.
InitSmall ==
    /\ \E sims \in SmallBatches : Constructed(sims)
    /\ NoCallYet

\* ------------------------------------------------------------------ run()
\* run() up to the dispatch: the defaults, n_digits, base_output_dir, and in
\* parallel mode the pool and its map over range(N).
Dispatch(par, cores, base_arg, catch, opts) ==
    /\ parallel' = par
    /\ n_cores' = cores
    /\ options' = opts
    /\ args' = [base_output_dir |-> base_arg, options |-> opts, time |-> clock]
    /\ other_params' = [n_digits |-> NDigits(n_simulations),
                        base_output_dir |-> ResolveBaseDir(base_arg, clock),
                        catch_errors |-> catch]
    /\ i' = 0
    /\ sim_results' = <<>>
    /\ calls' = <<>>
    /\ plotted' = <<>>
    /\ error' = "none"
    /\ ret' = NoReturn
    /\ IF par
       THEN LET cs == ChunkSize(n_simulations, cores)
                nc == NumChunks(n_simulations, cs)
            IN  /\ pc' = "par"
                /\ pool_alive' = TRUE
                /\ taskq' = [k \in 1..nc |-> k - 1]
                /\ busy' = {}
                /\ mapres' = [value |-> [x \in 1..n_simulations |-> None],
                              success |-> TRUE, exc |-> "none",
                              number_left |-> nc, chunksize |-> cs]
       ELSE /\ pc' = "seq"
            /\ pool_alive' = FALSE
            /\ taskq' = <<>>
            /\ busy' = {}
            /\ mapres' = NoMapResult

\* The caller's first run() call on the batch.
Run ==
    /\ pc = "idle"
    /\ \E par \in BOOLEAN : \E cores \in CoreArgs :
       \E base_arg \in BaseDirArgs : \E catch \in BOOLEAN : \E opts \in OptionArgs :
          /\ (~par => cores = 1)
          /\ Dispatch(par, cores, base_arg, catch, opts)
    /\ UNCHANGED <<list_of_simulations, n_simulations, sim_type, clock, prev, ctor>>

\* One turn of the sequential for loop: sim_results.append(_run_single_sim(..)).
SeqStepFromEnd ==
    /\ pc = "seq"
    /\ i < n_simulations
    /\ LET r == RunSingleSim(n_simulations - 1 - i, other_params, options)
       IN  /\ options' = r.options
           /\ calls' = Append(calls, r.call)
           /\ IF r.raised = "none"
              THEN /\ sim_results' = Append(sim_results, r.value)
                   /\ i' = i + 1
                   /\ UNCHANGED <<pc, error>>
              ELSE /\ pc' = "failed"
                   /\ error' = r.raised
                   /\ UNCHANGED <<sim_results, i>>
    /\ UNCHANGED <<list_of_simulations, n_simulations, sim_type, clock, parallel,
                   n_cores, other_params, taskq, busy, mapres, pool_alive,
                   plotted, ret, args, prev, ctor>>
SeqStep ==
    /\ pc = "seq"
    /\ i < n_simulations
    /\ LET r == RunSingleSim(i, other_params, options)
       IN  /\ options' = r.options
           /\ calls' = Append(calls, r.call)
           /\ IF r.raised = "none"
              THEN /\ sim_results' = Append(sim_results, r.value)
                   /\ i' = i + 1
                   /\ UNCHANGED <<pc, error>>
              ELSE /\ pc' = "failed"
                   /\ error' = r.raised
                   /\ UNCHANGED <<sim_results, i>>
    /\ UNCHANGED <<list_of_simulations, n_simulations, sim_type, clock, parallel,
                   n_cores, other_params, taskq, busy, mapres, pool_alive,
                   plotted, ret, args, prev, ctor>>

\* The sequential loop is over: return sim_results.
SeqReturnPruning ==
    /\ pc = "seq"
    /\ i = n_simulations
    /\ pc' = "returned"
    /\ ret' = sim_results
    /\ list_of_simulations' =
          SelectSeq(list_of_simulations, LAMBDA sim : sim.behaviour = "ok")
    /\ UNCHANGED <<n_simulations, sim_type, options, clock,
                   parallel, n_cores, other_params, i, sim_results, calls, taskq,
                   busy, mapres, pool_alive, plotted, error, args, prev, ctor>>
SeqReturn ==
    /\ pc = "seq"
    /\ i = n_simulations
    /\ pc' = "returned"
    /\ ret' = sim_results
    /\ UNCHANGED <<list_of_simulations, n_simulations, sim_type, options, clock,
                   parallel, n_cores, other_params, i, sim_results, calls, taskq,
                   busy, mapres, pool_alive, plotted, error, args, prev, ctor>>

\* An idle worker of the pool's n_cores takes the next chunk off the task queue.
WorkerTake ==
    /\ pc = "par"
    /\ pool_alive
    /\ Cardinality(busy) < n_cores
    /\ taskq # <<>>
    /\ busy' = busy \cup {Head(taskq)}
    /\ taskq' = Tail(taskq)
    /\ UNCHANGED <<list_of_simulations, n_simulations, sim_type, options, clock,
                   pc, parallel, n_cores, other_params, i, sim_results, calls,
                   mapres, pool_alive, plotted, error, ret, args, prev, ctor>>

\* A worker runs its chunk k and the pool records the chunk's outcome.
WorkerFinish(k) ==
    /\ pc = "par"
    /\ pool_alive
    /\ k \in busy
    /\ LET lo == k * mapres.chunksize
           hi == Min(lo + mapres.chunksize, n_simulations) - 1
           out == MapStar(lo, hi, options, <<>>, <<>>)
       IN  /\ calls' = calls \o out.calls
           /\ mapres' = MapResultSet(mapres, k, out)
    /\ busy' = busy \ {k}
    /\ UNCHANGED <<list_of_simulations, n_simulations, sim_type, options, clock,
                   pc, parallel, n_cores, other_params, i, sim_results, taskq,
                   pool_alive, plotted, error, ret, args, prev, ctor>>

\* p.map returns once every chunk is done (or raises the first exception
\* recorded), and the with block ends the pool.
ParGatherNoWith ==
    /\ pc = "par"
    /\ mapres.number_left = 0
    /\ pool_alive' = ~mapres.success
    /\ IF mapres.success
       THEN /\ sim_results' = mapres.value
            /\ pc' = "post"
            /\ UNCHANGED error
       ELSE /\ pc' = "failed"
            /\ error' = mapres.exc
            /\ UNCHANGED sim_results
    /\ UNCHANGED <<list_of_simulations, n_simulations, sim_type, options, clock,
                   parallel, n_cores, other_params, i, calls, taskq, busy,
                   mapres, plotted, ret, args, prev, ctor>>
ParGather ==
    /\ pc = "par"
    /\ mapres.number_left = 0
    /\ pool_alive' = FALSE
    /\ IF mapres.success
       THEN /\ sim_results' = mapres.value
            /\ pc' = "post"
            /\ UNCHANGED error
       ELSE /\ pc' = "failed"
            /\ error' = mapres.exc
            /\ UNCHANGED sim_results
    /\ UNCHANGED <<list_of_simulations, n_simulations, sim_type, options, clock,
                   parallel, n_cores, other_params, i, calls, taskq, busy,
                   mapres, plotted, ret, args, prev, ctor>>

\* The position of the first None of a list (0: none).
FirstNone(s) ==
    IF \E x \in 1..Len(s) : s[x] = None
    THEN CHOOSE x \in 1..Len(s) : s[x] = None /\ \A y \in 1..(x - 1) : s[y] # None
    ELSE 0

\* After the pool: plot every result when options asks for figures, and
\* return sim_results.  None has no plot(): AttributeError.
PostProcess ==
    /\ pc = "post"
    /\ IF DictGet(options, "show_fig", FALSE)
       THEN LET f == FirstNone(sim_results)
                upto == IF f = 0 THEN Len(sim_results) ELSE f - 1
            IN  /\ plotted' = [x \in 1..upto |->
                                 [ord |-> x - 1,
                                  save_fig |-> DictGet(options, "save_fig", FALSE)]]
                /\ IF f = 0
                   THEN pc' = "returned" /\ ret' = sim_results /\ UNCHANGED error
                   ELSE pc' = "failed" /\ error' = "AttributeError" /\ UNCHANGED ret
       ELSE /\ pc' = "returned"
            /\ ret' = sim_results
            /\ UNCHANGED <<plotted, error>>
    /\ UNCHANGED <<list_of_simulations, n_simulations, sim_type, options, clock,
                   parallel, n_cores, other_params, i, sim_results, calls, taskq,
                   busy, mapres, pool_alive, args, prev, ctor>>

Finish == \E k \in busy : WorkerFinish(k)

Next ==
    \/ Run
    \/ SeqStep
    \/ SeqReturn
    \/ WorkerTake
    \/ Finish
    \/ ParGather
    \/ PostProcess

Spec == Init /\ [][Next]_vars

\* The positions of the log of calls.
Called == 1..Len(calls)

CalledOrdinals == {calls[k].ord : k \in Called}

\* The bundle each ordinal called was called with.
BundleOf ==
    [o \in CalledOrdinals |-> calls[CHOOSE k \in Called : calls[k].ord = o].bundle]

\* The caller's second run() call on the batch, once the first is over: the
\* same arguments in the other mode, with the same options mapping object or
\* with a new mapping equal to the one first passed.
Rerun ==
    /\ pc \in {"returned", "failed"}
    /\ prev = NoPrev
    /\ prev' = [parallel |-> parallel, pc |-> pc, ret |-> ret, error |-> error,
                bundles |-> BundleOf]
    /\ \E cores \in CoreArgs : \E opts \in {options, args.options} :
          /\ (parallel => cores = 1)
          /\ Dispatch(~parallel, cores, args.base_output_dir,
                      other_params.catch_errors, opts)
    /\ UNCHANGED <<list_of_simulations, n_simulations, sim_type, clock, ctor>>

NextTwo ==
    \/ Next
    \/ Rerun

SpecTwo == InitSmall /\ [][NextTwo]_vars

\* ------------------------------------------------------ reading a state
\* The last component of a path: what follows its last '/'.
Basename(p) ==
    LET slashes == {x \in 1..Len(p) : p[x] = "/"}
        last == IF slashes = {} THEN 0
                ELSE CHOOSE x \in slashes : \A y \in slashes : y <= x
    IN  SubSeq(p, last + 1, Len(p))

IsDigit(c) == \E d \in 1..10 : Digits[d] = c

DigitValue(c) == (CHOOSE d \in 1..10 : Digits[d] = c) - 1

\* The number a string of decimal digits denotes.
RECURSIVE DecimalValue(_)
DecimalValue(s) ==
    IF s = <<>> THEN 0
    ELSE DecimalValue(SubSeq(s, 1, Len(s) - 1)) * 10 + DigitValue(s[Len(s)])

\* The number of decimal digits of n >= 0.
RECURSIVE DecimalDigits(_)
DecimalDigits(n) == IF n < 10 THEN 1 ELSE 1 + DecimalDigits(n \div 10)

\* name is the decimal rendering of n, left-padded with '0' to width w.
IsZeroPadded(name, n, w) ==
    /\ Len(name) = w
    /\ \A x \in 1..Len(name) : IsDigit(name[x])
    /\ DecimalValue(name) = n

\* The key a simulation type takes its location under.
KeyOfType ==
    CASE sim_type = "Nonlinear_Simulation" -> "sim_dir"
      [] sim_type = "Linear_Simulation" -> "output_dir"
      [] sim_type = "Equiv_Linear_Simulation" -> "output_dir"

\* The output location a call handed to its simulation.
Location(c) ==
    IF "sim_dir" \in DOMAIN c.bundle THEN c.bundle["sim_dir"]
    ELSE c.bundle["output_dir"]

Finished == pc \in {"returned", "failed"}

\* ------------------------------------------------------------------ claims

\* C1 as stated: the last component of the location allocated to ordinal i of
\* a batch of N is i in decimal, zero-padded to the number of digits of N - 1.
C1_WidthOfLastOrdinal ==
    \A k \in Called :
        IsZeroPadded(Basename(Location(calls[k])), calls[k].ord,
                     DecimalDigits(n_simulations - 1))

\* C1 as amended: the last component of the location allocated to ordinal i of
\* a batch of N is i in decimal, zero-padded to the number of digits of N.
C1_WidthOfBatchSize ==
    \A k \in Called :
        IsZeroPadded(Basename(Location(calls[k])), calls[k].ord,
                     DecimalDigits(n_simulations))

\* A batch of 11 has handed out the padded '09' and the unpadded '10'.
C1_Witness ==
    /\ n_simulations = 11
    /\ \E k \in Called :
          calls[k].ord = 9 /\ Basename(Location(calls[k])) = <<"0", "9">>
    /\ \E k \in Called :
          calls[k].ord = 10 /\ Basename(Location(calls[k])) = <<"1", "0">>

\* C2: within one run() call two different ordinals are never given the same
\* output location, in sequential and in parallel mode.
C2_DistinctLocations ==
    \A k1 \in Called : \A k2 \in Called :
        calls[k1].ord # calls[k2].ord => Location(calls[k1]) # Location(calls[k2])

\* A parallel run of 11 simulations has called every one of them.
C2_Witness ==
    /\ parallel
    /\ n_simulations = 11
    /\ CalledOrdinals = 0..10

C4_FailureAbortsRun ==
    (pc # "idle" /\ ~other_params.catch_errors) =>
        /\ (\E k \in Called : calls[k].raised # "none") => pc \in {"par", "failed"}
        /\ pc # "returned" => ret = NoReturn
        /\ pc = "failed" => \E k \in Called : calls[k].raised = error /\ error # "none"
        /\ ~parallel =>
             /\ \A k \in 1..(Len(calls) - 1) : calls[k].raised = "none"
             /\ pc = "failed" => error = calls[Len(calls)].raised

\* A sequential run of three failed on its first simulation.
C4_Witness ==
    /\ ~other_params.catch_errors
    /\ ~parallel
    /\ pc = "failed"
    /\ n_simulations = 3
    /\ Len(calls) = 1

\* C5: a simulation that fails with anything but ValueError makes the run
\* fail, with or without catch_errors and in both modes: the run returns
\* nothing, no sentinel stands for that simulation, and with catch_errors the
\* run's error is that kind of error.
C5_OtherErrorsPropagate ==
    \A k \in Called :
        calls[k].raised = "OtherError" =>
            /\ pc \in {"par", "failed"}
            /\ ret = NoReturn
            /\ pc = "par" => ~mapres.success
            /\ ~parallel => pc = "failed" /\ error = "OtherError"
                            /\ Len(sim_results) = calls[k].ord
            /\ (pc = "failed" /\ other_params.catch_errors) => error = "OtherError"
            /\ pc = "failed" => error \in {"OtherError", "ValueError"}

\* A parallel run with catch_errors failed with the other kind of error.
C5_Witness ==
    /\ other_params.catch_errors
    /\ parallel
    /\ pc = "failed"
    /\ error = "OtherError"
    /\ \E k \in Called : calls[k].raised = "ValueError"

\* The ordinals of the results that are not None, in increasing order.
RECURSIVE ResultOrdinals(_, _)
ResultOrdinals(s, n) ==
    IF n = 0 THEN <<>>
    ELSE IF s[n] = None THEN ResultOrdinals(s, n - 1)
    ELSE Append(ResultOrdinals(s, n - 1), n - 1)

\* C6: a parallel run asked for figures whose map succeeded plots exactly the
\* results that are not None, in ordinal order, and returns the sequence.
C6_RenderingSkipsSentinels ==
    (parallel /\ Finished /\ mapres.success /\ DictGet(options, "show_fig", FALSE)) =>
        /\ pc = "returned"
        /\ ret = sim_results
        /\ [x \in 1..Len(plotted) |-> plotted[x].ord]
             = ResultOrdinals(sim_results, Len(sim_results))

\* C7: a parallel run that returns, returns N elements, and the element at
\* index i is what the call for ordinal i returned (the result of the i-th
\* simulation of the batch, or None), whatever the order of completion.
C7_ParallelOrderPreserved ==
    (parallel /\ pc = "returned") =>
        /\ Len(ret) = n_simulations
        /\ \A k \in Called :
             LET c == calls[k]
             IN  /\ ret[c.ord + 1] = c.value
                 /\ c.value # None => c.value.sim = list_of_simulations[c.ord + 1]
        /\ CalledOrdinals = 0..(n_simulations - 1)

\* A parallel run returned although a later chunk completed before an earlier.
C7_Witness ==
    /\ parallel
    /\ pc = "returned"
    /\ \E k \in 1..(Len(calls) - 1) : calls[k].ord > calls[k + 1].ord

\* C8: a sequential run calls the simulations one at a time in the order
\* 0, 1, .., each after the one before has returned, and a run that returns
\* has called all N and returns the N outcomes in that order.
C8_SequentialOrder ==
    (pc # "idle" /\ ~parallel) =>
        /\ \A k \in 1..Len(calls) : calls[k].ord = k - 1
        /\ Len(calls) <= n_simulations
        /\ pc = "seq" => Len(calls) = i /\ Len(sim_results) = i
        /\ pc = "returned" =>
             /\ Len(calls) = n_simulations
             /\ Len(ret) = n_simulations
             /\ \A k \in 1..n_simulations : ret[k] = calls[k].value

\* A sequential run of three returned.
C8_Witness ==
    /\ ~parallel
    /\ pc = "returned"
    /\ n_simulations = 3
    /\ Len(ret) = 3

\* The run over now, as the previous run was recorded.
ThisRun ==
    [parallel |-> parallel, pc |-> pc, ret |-> ret, error |-> error,
     bundles |-> BundleOf]

\* Of the two runs of one batch with the same arguments, the sequential one
\* and the parallel one.
SequentialRun == IF parallel THEN prev ELSE ThisRun

ParallelRun == IF parallel THEN ThisRun ELSE prev

BothRunsOver == prev # NoPrev /\ Finished

\* Every simulation called in both runs got the same bundle in both.
SameBundles ==
    \A o \in (DOMAIN SequentialRun.bundles) \cap (DOMAIN ParallelRun.bundles) :
        SequentialRun.bundles[o] = ParallelRun.bundles[o]

\* C9: the sequential and the parallel run of one batch with the same
\* arguments both return or both fail; when they return, the sequences have
\* the same length and the same element at every ordinal; and a simulation
\* gets the same bundle in both.
C9_ModesAgree ==
    BothRunsOver =>
        /\ (SequentialRun.pc = "returned") <=> (ParallelRun.pc = "returned")
        /\ SequentialRun.pc = "returned" =>
             /\ Len(SequentialRun.ret) = Len(ParallelRun.ret)
             /\ \A k \in 1..Len(SequentialRun.ret) :
                  SequentialRun.ret[k] = ParallelRun.ret[k]
        /\ SameBundles

\* What holds of the two runs: a parallel run returns only if the sequential
\* run does, then with the same sequence, and the bundles are the same; the
\* modes differ only where the rendering pass of C6 fails.
ModesAgreeUpToRendering ==
    BothRunsOver =>
        /\ ParallelRun.pc = "returned" =>
             /\ SequentialRun.pc = "returned"
             /\ SequentialRun.ret = ParallelRun.ret
        /\ (SequentialRun.pc = "returned" /\ ParallelRun.pc = "failed") =>
             ParallelRun.error = "AttributeError"
        /\ SameBundles

\* Both runs returned, the parallel one second and out of ordinal order.
BothRunsReturned ==
    /\ BothRunsOver
    /\ parallel
    /\ pc = "returned"
    /\ prev.pc = "returned"
    /\ \E k \in 1..(Len(calls) - 1) : calls[k].ord > calls[k + 1].ord

\* C10: the bundle of every call carries, under sim_dir for a nonlinear batch
\* and under output_dir for a linear or equivalent linear batch, the base
\* output directory joined with the zero-padded ordinal of the simulation
\* called (its name denotes that ordinal and no other).
C10_OwnLocationUnderKey ==
    \A k \in Called :
        /\ KeyOfType \in DOMAIN calls[k].bundle
        /\ LET loc == calls[k].bundle[KeyOfType]
               name == Basename(loc)
           IN  /\ loc = PathJoin(other_params.base_output_dir, name)
               /\ IsZeroPadded(name, calls[k].ord, other_params.n_digits)

\* A nonlinear batch has called its second simulation with sim_dir.
C10_Witness ==
    /\ sim_type = "Nonlinear_Simulation"
    /\ \E k \in Called : calls[k].ord = 1 /\ "sim_dir" \in DOMAIN calls[k].bundle

\* ------------------------------------------------- the constructor's checks
\* Classes of the items a caller may put in the argument: the three
\* simulation classes and a class that is none of them.
ItemClasses == Kinds \cup {"Other"}

\* Arguments a caller may hand to Batch_Simulation(...): lists and tuples of
\* up to MaxArgLen items, and None.
ItemSeqs ==
    UNION { [1..N -> [kind : ItemClasses, behaviour : {"ok"}]] : N \in 0..MaxArgLen }

CtorArgs ==
    { [type |-> t, items |-> items] : t \in {"list", "tuple"}, items \in ItemSeqs }
      \cup {[type |-> "NoneType", items |-> <<>>]}

\* Before __init__ runs: no attribute of the object is set.
InitCtor ==
    /\ \E x \in CtorArgs : ctor = [arg |-> x, raised |-> "none"]
    /\ list_of_simulations = Unset
    /\ n_simulations = Unset
    /\ sim_type = Unset
    /\ NoRunYet
    /\ pc = "new"

\* Batch_Simulation(ctor.arg): the attributes are set when no check raises,
\* and the caller gets no object when one does.
New ==
    /\ pc = "new"
    /\ LET r == InitBatch(ctor.arg)
       IN  /\ ctor' = [ctor EXCEPT !.raised = r.raised]
           /\ IF r.raised = "none"
              THEN /\ list_of_simulations' = r.list_of_simulations
                   /\ n_simulations' = r.n_simulations
                   /\ sim_type' = r.sim_type
                   /\ pc' = "idle"
              ELSE /\ UNCHANGED <<list_of_simulations, n_simulations, sim_type>>
                   /\ pc' = "rejected"
    /\ UNCHANGED <<options, clock, parallel, n_cores, other_params, i,
                   sim_results, calls, taskq, busy, mapres, pool_alive,
                   plotted, error, ret, args, prev>>

NextCtor == New

SpecCtor == InitCtor /\ [][NextCtor]_vars

\* The constructor has run on its argument.
CtorDone == pc # "new"

NoObject ==
    /\ pc = "rejected"
    /\ list_of_simulations = Unset
    /\ n_simulations = Unset
    /\ sim_type = Unset

\* The items of the argument are all of the class cls.
AllOfKind(items, cls) == \A k \in 1..Len(items) : items[k].kind = cls

\* C11: construction raises TypeError for an argument that is not a list,
\* ValueError for the empty list, TypeError for a list whose first item is of
\* none of the three simulation classes, and TypeError for a list one of
\* whose items is of another class than the first; whenever it raises, no
\* batch object exists.
C11_RejectedArguments ==
    CtorDone =>
      LET x == ctor.arg
      IN  /\ x.type # "list" => ctor.raised = "TypeError"
          /\ (x.type = "list" /\ Len(x.items) = 0) => ctor.raised = "ValueError"
          /\ (x.type = "list" /\ Len(x.items) > 0 /\ x.items[1].kind \notin Kinds)
                => ctor.raised = "TypeError"
          /\ (x.type = "list" /\ Len(x.items) > 0
                /\ \E k \in 1..Len(x.items) : x.items[k].kind # x.items[1].kind)
                => ctor.raised = "TypeError"
          /\ ctor.raised # "none" => NoObject

\* A list of simulations whose last item alone is of another class than the
\* first has been rejected.
C11_Witness ==
    /\ CtorDone
    /\ ctor.arg.type = "list"
    /\ Len(ctor.arg.items) = MaxArgLen
    /\ ctor.arg.items[1].kind \in Kinds
    /\ \A k \in 1..(MaxArgLen - 1) : ctor.arg.items[k].kind = ctor.arg.items[1].kind
    /\ ctor.arg.items[MaxArgLen].kind \in Kinds \ {ctor.arg.items[1].kind}
    /\ ctor.raised = "TypeError"
    /\ NoObject

\* C12: for a non-empty list whose items are all of one of the three
\* simulation classes, construction raises nothing, n_simulations is the
\* length of the list and sim_type is that class.
C12_AcceptedLists ==
    CtorDone =>
      \A cls \in Kinds :
        (ctor.arg.type = "list" /\ Len(ctor.arg.items) > 0
           /\ AllOfKind(ctor.arg.items, cls))
          => /\ ctor.raised = "none"
             /\ pc = "idle"
             /\ list_of_simulations = ctor.arg.items
             /\ n_simulations = Len(ctor.arg.items)
             /\ sim_type = cls

\* A list of one nonlinear simulation has been accepted.
C12_Witness ==
    /\ CtorDone
    /\ ctor.arg.type = "list"
    /\ Len(ctor.arg.items) = 1
    /\ AllOfKind(ctor.arg.items, "Nonlinear_Simulation")
    /\ ctor.raised = "none"
    /\ n_simulations = 1
    /\ sim_type = "Nonlinear_Simulation"

\* ------------------------------------------------------ a running clock
\* Batches of 1..MaxSims simulations of one type, none of which fails.
CalmBatches ==
    { [k \in 1..N |-> [kind |-> kind, behaviour |-> "ok"]] :
        <<N, kind>> \in (1..MaxSims) \X Kinds }

InitClock ==
    /\ \E sims \in CalmBatches : Constructed(sims)
    /\ NoCallYet

\* Time passes: before a call, between the calls of the simulations, while
\* the pool works, after the run.
Tick ==
    /\ clock < MaxClock
    /\ clock' = clock + 1
    /\ UNCHANGED <<list_of_simulations, n_simulations, sim_type, options, pc,
                   parallel, n_cores, other_params, i, sim_results, calls,
                   taskq, busy, mapres, pool_alive, plotted, error, ret, args,
                   prev, ctor>>

NextClock == Next \/ Tick

SpecClock == InitClock /\ [][NextClock]_vars

\* What precedes the last '/' of a path.
Dirname(p) ==
    LET slashes == {x \in 1..Len(p) : p[x] = "/"}
        last == IF slashes = {} THEN 1
                ELSE CHOOSE x \in slashes : \A y \in slashes : y <= x
    IN  SubSeq(p, 1, last - 1)

\* C13: in a run() called without base_output_dir, the directory named after
\* the time is the one of the clock's reading at the call, it is fixed before
\* any simulation is called, and every simulation of the run is given a
\* location in that one directory, however far the clock has moved since.
C13_OneTimestampPerRun ==
    (pc # "idle" /\ args.base_output_dir = None) =>
      /\ other_params.base_output_dir = ResolveBaseDir(None, args.time)
      /\ \A k \in Called :
            Dirname(Location(calls[k])) = ResolveBaseDir(None, args.time)

\* In the middle of a run without base_output_dir: one simulation has been
\* called, another has not yet, and the clock has moved since the call of
\* run().
C13_Witness ==
    /\ pc \in {"seq", "par"}
    /\ args.base_output_dir = None
    /\ Len(calls) >= 1
    /\ Len(calls) < n_simulations
    /\ clock > args.time
    /\ Dirname(Location(calls[1])) = ResolveBaseDir(None, args.time)
    /\ Dirname(Location(calls[1])) # ResolveBaseDir(None, clock)

\* ------------------------------------------------ the caller's options
\* C14: when run() has returned or failed, the options mapping of the caller
\* holds the keys and values it held when run() was called, in sequential and
\* in parallel mode.
C14_CallerOptionsUntouched ==
    Finished => options = args.options

\* The same of the parallel mode alone, in which each chunk of the pool
\* updates its own unpickled copy of the mapping.
CallerOptionsUntouchedByPool ==
    (Finished /\ parallel) => options = args.options

\* ------------------------------------------------------- the pool's life
\* C15: a pool is alive only while a parallel run() is mapping; it has been
\* ended when run() is past the map, has returned or has failed (a failure of
\* a simulation that the map raised included), so that no pool of an earlier
\* run() is alive during a later run().
C15_PoolReleased ==
    /\ pool_alive => (pc = "par" /\ parallel)
    /\ pc \in {"idle", "seq", "post", "returned", "failed"} => ~pool_alive
    /\ (prev # NoPrev /\ prev.parallel) => ~pool_alive

\* A parallel run() failed with the exception of a simulation, and the later
\* sequential run() of the batch is under way with no pool alive.
C15_Witness ==
    /\ prev # NoPrev
    /\ prev.parallel
    /\ prev.pc = "failed"
    /\ prev.error \in {"ValueError", "OtherError"}
    /\ pc = "seq"
    /\ Len(calls) >= 1
    /\ ~pool_alive

\* ------------------------------------------------------------- progress
\* The steps of a run() under way: the interpreter goes on with the loop and
\* with what follows it, and the processes of the pool are scheduled.
RunStep ==
    \/ SeqStep
    \/ SeqReturn
    \/ WorkerTake
    \/ Finish
    \/ ParGather
    \/ PostProcess

\* Batches of 1..MaxSims linear simulations, each of which may fail.
LinearBatches ==
    { sims \in SmallBatches : sims[1].kind = "Linear_Simulation" }

InitLive ==
    /\ \E sims \in LinearBatches : Constructed(sims)
    /\ NoCallYet

SpecLive == InitLive /\ [][Next]_vars /\ WF_vars(RunStep)

Running == pc \in {"seq", "par", "post"}

\* No simulation has been called twice in the run, and once run() has
\* returned every simulation of the batch has been called, each call having
\* ended with a result or with a ValueError that was made a None.
CalledOnceEach ==
    /\ \A k1, k2 \in Called : calls[k1].ord = calls[k2].ord => k1 = k2
    /\ \A k \in Called : calls[k].ord \in 0..(n_simulations - 1)
    /\ pc = "returned" =>
         /\ Len(calls) = n_simulations
         /\ CalledOrdinals = 0..(n_simulations - 1)
         /\ Len(ret) = n_simulations
         /\ \A k \in Called :
              \/ calls[k].raised = "none" /\ ret[calls[k].ord + 1] = calls[k].value
                                         /\ calls[k].value # None
              \/ calls[k].raised = "ValueError" /\ ret[calls[k].ord + 1] = None

\* C16: in one run() no simulation is called more than once; when run()
\* returns, each of the n_simulations simulations has been called exactly
\* once and has ended with a result or a None; and a run() under way
\* eventually returns or fails.
C16_OnceEachAndTerminates ==
    /\ []CalledOnceEach
    /\ Running ~> Finished

\* A parallel run() of MaxSims simulations has returned, one of them having
\* ended with a None.
C16_Witness ==
    /\ pc = "returned"
    /\ parallel
    /\ n_simulations = MaxSims
    /\ Len(calls) = MaxSims
    /\ \E k \in 1..MaxSims : ret[k] = None
    /\ \E k \in 1..MaxSims : ret[k] # None

\* ------------------------------------------------- run() called repeatedly
\* A later run() call on the batch, once the call before it is over: any
\* mode and arguments, with a new options mapping or with the mapping object
\* passed before.  Each call is made at a later time than the one before.
RunAgain ==
    /\ pc \in {"returned", "failed"}
    /\ clock < MaxClock
    /\ clock' = clock + 1
    /\ \E par \in BOOLEAN : \E cores \in CoreArgs :
       \E base_arg \in BaseDirArgs : \E catch \in BOOLEAN :
       \E opts \in OptionArgs \cup {options} :
          /\ (~par => cores = 1)
          /\ Dispatch(par, cores, base_arg, catch, opts)
    /\ UNCHANGED <<list_of_simulations, n_simulations, sim_type, prev, ctor>>

NextMany == Next \/ RunAgain

\* Batches of two simulations of one type, each of which may fail.
PairBatches == { sims \in SmallBatches : Len(sims) = 2 }

InitMany ==
    /\ \E sims \in PairBatches : Constructed(sims)
    /\ NoCallYet

SpecMany == InitMany /\ [][NextMany]_vars

\* C17: whatever run() calls have been made on a batch, in either mode,
\* returned or failed, its simulations are those of the list it was
\* constructed from, in that order, n_simulations is their number and
\* sim_type the class of each of them.
C17_BatchUnchangedByRuns ==
    /\ list_of_simulations = ctor.arg.items
    /\ n_simulations = Len(ctor.arg.items)
    /\ sim_type = ctor.arg.items[1].kind
    /\ n_simulations = Len(list_of_simulations)
    /\ \A k \in 1..Len(list_of_simulations) : list_of_simulations[k].kind = sim_type

\* The last of several run() calls on a batch of two simulations is over; it
\* was sequential, caught the ValueError of a simulation and returned.
C17_Witness ==
    /\ clock = MaxClock
    /\ pc = "returned"
    /\ ~parallel
    /\ n_simulations = 2
    /\ Len(ret) = 2
    /\ \E k \in 1..2 : ret[k] = None
    /\ list_of_simulations = ctor.arg.items

\* ------------------------------------------------- the order of the names
\* a < b of two strings of decimal digits as Python compares strings:
\* character by character, a proper prefix being the smaller.
RECURSIVE LexLess(_, _)
LexLess(a, b) ==
    IF b = <<>> THEN FALSE
    ELSE IF a = <<>> THEN TRUE
    ELSE IF a[1] = b[1] THEN LexLess(Tail(a), Tail(b))
    ELSE DigitValue(a[1]) < DigitValue(b[1])

\* The directory name a call handed out.
Name(c) == Basename(Location(c))

\* Batches of 1..MaxBatch linear simulations, none of which fails.
CalmLinearBatches ==
    { [k \in 1..N |-> [kind |-> "Linear_Simulation", behaviour |-> "ok"]] :
        N \in 1..MaxBatch }

InitNames ==
    /\ \E sims \in CalmLinearBatches : Constructed(sims)
    /\ NoCallYet

SpecNames == InitNames /\ [][Next]_vars

\* C18: the directory names handed out in one run() all have the same
\* width, and of two simulations the one with the smaller ordinal has the
\* name that is smaller in the lexicographic order of strings.
C18_NamesSortLikeOrdinals ==
    \A k1 \in Called : \A k2 \in Called :
        /\ Len(Name(calls[k1])) = Len(Name(calls[k2]))
        /\ calls[k1].ord < calls[k2].ord => LexLess(Name(calls[k1]), Name(calls[k2]))

\* A batch of MaxBatch has handed out names to its ordinals 9 and 10, of
\* which the one-digit ordinal got the smaller name.
C18_Witness ==
    /\ n_simulations = MaxBatch
    /\ \E k1 \in Called : \E k2 \in Called :
          /\ calls[k1].ord = 9
          /\ calls[k2].ord = 10
          /\ Len(Name(calls[k1])) = 2
          /\ LexLess(Name(calls[k1]), Name(calls[k2]))
          /\ ~LexLess(Str(9), Str(10))

\* ------------------------------------- one options mapping, several batches
\* Batches of one simulation that does not fail, one batch per type.
SoloBatches == { sims \in CalmBatches : Len(sims) = 1 }

InitShared ==
    /\ \E sims \in SoloBatches : Constructed(sims)
    /\ NoCallYet

\* Once a run() is over the caller constructs another batch, of any type, and
\* calls its run() with a new options mapping or with the mapping object
\* passed before.  The attributes are from here on those of that batch.
RunOther ==
    /\ pc \in {"returned", "failed"}
    /\ clock < MaxClock
    /\ clock' = clock + 1
    /\ \E sims \in SoloBatches :
         LET r == InitBatch(ListArg(sims))
         IN  /\ r.raised = "none"
             /\ list_of_simulations' = r.list_of_simulations
             /\ n_simulations' = r.n_simulations
             /\ sim_type' = r.sim_type
             /\ ctor' = [arg |-> ListArg(sims), raised |-> "none"]
             /\ \E par \in BOOLEAN : \E cores \in CoreArgs :
                \E base_arg \in BaseDirArgs : \E catch \in BOOLEAN :
                \E opts \in OptionArgs \cup {options} :
                   /\ (~par => cores = 1)
                   /\ parallel' = par
                   /\ n_cores' = cores
                   /\ options' = opts
                   /\ args' = [base_output_dir |-> base_arg, options |-> opts,
                               time |-> clock]
                   /\ other_params' = [n_digits |-> NDigits(r.n_simulations),
                                       base_output_dir |-> ResolveBaseDir(base_arg, clock),
                                       catch_errors |-> catch]
                   /\ IF par
                      THEN LET cs == ChunkSize(r.n_simulations, cores)
                               nc == NumChunks(r.n_simulations, cs)
                           IN  /\ pc' = "par"
                               /\ pool_alive' = TRUE
                               /\ taskq' = [k \in 1..nc |-> k - 1]
                               /\ mapres' = [value |-> [x \in 1..r.n_simulations |-> None],
                                             success |-> TRUE, exc |-> "none",
                                             number_left |-> nc, chunksize |-> cs]
                      ELSE /\ pc' = "seq"
                           /\ pool_alive' = FALSE
                           /\ taskq' = <<>>
                           /\ mapres' = NoMapResult
    /\ i' = 0
    /\ sim_results' = <<>>
    /\ calls' = <<>>
    /\ plotted' = <<>>
    /\ error' = "none"
    /\ ret' = NoReturn
    /\ busy' = {}
    /\ UNCHANGED prev

NextShared == Next \/ RunOther

SpecShared == InitShared /\ [][NextShared]_vars

\* The keys a caller puts into an options mapping.
CallerKeys == UNION { DOMAIN o : o \in OptionArgs }

\* C19: whatever run() calls were made before, on this batch or on batches
\* of other types with the same options mapping object, the bundle handed to
\* a simulation holds keys of the caller and the location key of the
\* simulation's own type only: a linear or equivalent linear simulation is
\* handed no sim_dir, a nonlinear one no output_dir.
C19_NoForeignLocationKey ==
    \A k \in Called :
        /\ DOMAIN calls[k].bundle \subseteq CallerKeys \cup {KeyOfType}
        /\ sim_type = "Nonlinear_Simulation" => "output_dir" \notin DOMAIN calls[k].bundle
        /\ sim_type # "Nonlinear_Simulation" => "sim_dir" \notin DOMAIN calls[k].bundle


====
